---------------------------- MODULE Spec2Model ----------------------------
(***************************************************************************)
(* Model of juju/model/_idle.py: the wait_for_idle machinery.              *)
(*                                                                         *)
(*   loop()   the time-dependent aggregator: consumes CheckStatus | None   *)
(*            items and yields one boolean per item (SpecLoop);            *)
(*   check()  the pure reduction of one FullStatus snapshot to a           *)
(*            CheckStatus, None, or a raised error (SpecCheck).            *)
(*                                                                         *)
(* Strings that the code takes apart (unit and application names, which    *)
(* are matched with str.startswith) are sequences of one-character        *)
(* strings; strings that are only compared are TLA+ strings.               *)
(***************************************************************************)
EXTENDS Integers, Sequences, FiniteSets, TLC

(***************************************************************************)
(* Python values                                                           *)
(***************************************************************************)

\* Optional values: None is the empty sequence, a present value x is <<x>>.
None == <<>>

Some(x) == <<x>>

\* float("inf") and finite monotonic timestamps, kept apart by a tag.
Inf == [inf |-> TRUE]

Fin(t) == [inf |-> FALSE, t |-> t]

\* min(a, b) on timestamps
MinT(a, b) ==
    IF a.inf THEN b
    ELSE IF b.inf THEN a
    ELSE IF a.t <= b.t THEN a ELSE b

\* a > x, for a timestamp a (possibly inf) and a finite number x
GtT(a, x) == a.inf \/ a.t > x

\* s.startswith(p)
StartsWith(s, p) == Len(s) >= Len(p) /\ SubSeq(s, 1, Len(p)) = p

\* f"{app_name}/"
AppPrefix(app_name) == app_name \o <<"/">>

(***************************************************************************)
(* Bounds of the aggregator model                                          *)
(***************************************************************************)

\* number of items the input source yields at most
MaxSteps == 4

\* largest wait_for_units tried
MaxWait == 2

\* clock.tick(10) of the unit tests; the clock may also stand still
Tick == 10

\* idle_period=15 of the unit tests; 0 is the other period tried
IdlePeriod == 15

\* wait_for_exact_units=2 of the unit tests
ExactUnits == 2

Digits == <<"0", "1", "2", "3", "4", "5">>

UnitName(app_name, i) == AppPrefix(app_name) \o <<Digits[i + 1]>>

AppU == <<"u">>

\* the units of the unit tests: u/0, u/1, u/2
U0 == UnitName(AppU, 0)

U1 == UnitName(AppU, 1)

U2 == UnitName(AppU, 2)

LoopUnits == {U0, U1, U2}

\* CheckStatus(units, ready_units, idle_units)
CheckStatus(units, ready_units, idle_units) ==
    [units |-> units, ready_units |-> ready_units, idle_units |-> idle_units]

\* the unit sets a record may show: one unit, or all of them
UnitSets == {{U0}, LoopUnits}

\* the records fed to loop(): any subset of the visible units is ready, and
\* either every visible unit's agent is idle or none is
Records ==
    UNION {{CheckStatus(us, r, i) : r \in SUBSET us, i \in {us, {}}} :
              us \in UnitSets}

Ticks == {0, Tick}

Configs ==
    [apps : {{AppU}},
     wait_for_units : 0 .. MaxWait,
     wait_for_exact_units : {None, Some(ExactUnits)},
     idle_period : {0, IdlePeriod}]

(***************************************************************************)
(* State                                                                   *)
(***************************************************************************)
VARIABLES
    cfg,            \* loop()'s keyword arguments
    clock,          \* time.monotonic()
    idle_since,     \* loop()'s dict idle_since
    status,         \* the item loop() consumed last
    rv,             \* the boolean loop() yielded last, None before the first
    steps,          \* number of items consumed
    yielded,        \* number of booleans yielded
    pc,             \* "running", or "done" once the source is exhausted
    second,         \* the frame of a second invocation of loop() with the
                    \* same arguments, None until it is called
    settled,        \* the record the input source yields from now on, None
                    \* while it may yield any item
    \* History variables: they observe the run and no action reads them.
    agent_idle_since,   \* per unit, since when every record showing it had it
                        \* in idle_units (inf: not in idle_units last time)
    all_idle,       \* every record so far had idle_units = units
    on_script,      \* the run so far is the beginning of a unit-test script
    trace,          \* while on_script: the items fed, with time and verdict
    \* A second loop() with the same arguments, fed the same records at the
    \* same times but none of the absent items.
    skip_idle_since,    \* its dict idle_since
    skip_rv,            \* the boolean it yielded last
    \* check(): one FullStatus snapshot and one call
    full_status,    \* the snapshot, a test fixture with some fields edited
    edits,          \* number of edits made to the fixture
    call,           \* the arguments of the call of check(), None before it
    scope_units,    \* check()'s dict units (lines 125-128); empty before it
    outcome         \* what the call did: return None, return a record, raise

loopVars == <<cfg, clock, idle_since, status, rv, steps, yielded, pc>>

idleHist == <<agent_idle_since, all_idle>>

skipVars == <<skip_idle_since, skip_rv>>

histVars == <<idleHist, on_script, trace, skipVars>>

checkVars == <<full_status, edits, call, scope_units, outcome>>

vars == <<loopVars, histVars, checkVars, second, settled>>

(***************************************************************************)
(* loop()                                                                  *)
(***************************************************************************)

\* idle_since.get(name, float("inf"))
Get(d, name) == IF name \in DOMAIN d THEN d[name] ELSE Inf

\* UpdateIdleSince with a slip: the clock of a unit that is not ready is
\* left as it was
UpdateIdleSinceKeepsClock(d, st, now) ==
    [name \in DOMAIN d \cup st.units |->
        IF name \in st.units
        THEN IF name \in st.ready_units
             THEN MinT(Fin(now), Get(d, name))
             ELSE Get(d, name)
        ELSE d[name]]

\* UpdateIdleSince with a slip: the clock of a ready unit starts again at
\* every record
UpdateIdleSinceRestarts(d, st, now) ==
    [name \in DOMAIN d \cup st.units |->
        IF name \in st.units
        THEN IF name \in st.ready_units THEN Fin(now) ELSE Inf
        ELSE d[name]]

\* lines 61-65: the clock of every unit of the record
UpdateIdleSince(d, st, now) ==
    [name \in DOMAIN d \cup st.units |->
        IF name \in st.units
        THEN IF name \in st.ready_units
             THEN MinT(Fin(now), Get(d, name))
             ELSE Inf
        ELSE d[name]]

\* ReadyUnitsOf with a slip: the prefix is the application name without
\* the slash
ReadyUnitsOfBarePrefix(st, app_name) ==
    {n \in st.ready_units : StartsWith(n, app_name)}

\* lines 68-70: the ready units of one application
ReadyUnitsOf(st, app_name) ==
    {n \in st.ready_units : StartsWith(n, AppPrefix(app_name))}

\* CountsOk with a slip: the ready units of all the applications are counted
\* together
CountsOkInTotal(st, c) ==
    LET n == Cardinality(UNION {ReadyUnitsOf(st, app_name) : app_name \in c.apps})
    IN  /\ ~(n < c.wait_for_units)
        /\ ~(c.wait_for_exact_units # None /\ n # c.wait_for_exact_units[1])

\* lines 67-90: rv stays True through the loop over apps
CountsOk(st, c) ==
    \A app_name \in c.apps :
        LET n == Cardinality(ReadyUnitsOf(st, app_name))
        IN  /\ ~(n < c.wait_for_units)
            /\ ~(c.wait_for_exact_units # None /\ n # c.wait_for_exact_units[1])

\* line 95: the units not idle for long enough
Busy(d, expected_idle_since) ==
    {n \in DOMAIN d : GtT(d[n], expected_idle_since)}

\* lines 54-99: the value yielded for a record
LoopVerdict(d, st, now, c) ==
    /\ CountsOk(st, c)
    /\ Busy(d, now - c.idle_period) = {}

(***************************************************************************)
(* The unit tests of loop(), tests/unit/test_idle_loop.py, as scripts: the *)
(* keyword arguments, the items in order, and the clock ticks allowed      *)
(* between two items.  The tests' single unit hexanator/0 is u/0 here.     *)
(***************************************************************************)
Kwargs(w, e, p) ==
    [apps |-> {AppU}, wait_for_units |-> w, wait_for_exact_units |-> e,
     idle_period |-> p]

\* test_at_least_units: time is frozen
ScriptAtLeastUnits ==
    [cfg |-> Kwargs(2, None, 0),
     items |-> << Some(CheckStatus({U0, U1, U2}, {U0}, {U0, U1, U2})),
                  Some(CheckStatus({U0, U1, U2}, {U0, U1}, {U0, U1, U2})),
                  Some(CheckStatus({U0, U1, U2}, {U0, U1, U2}, {U0, U1, U2})) >>,
     ticks |-> {0}]

\* test_for_exact_units: too_few, good, too_many, good at any times
ScriptExactUnits ==
    [cfg |-> Kwargs(1, Some(ExactUnits), 0),
     items |-> << Some(CheckStatus({U0, U1, U2}, {U2}, {U0, U1, U2})),
                  Some(CheckStatus({U0, U1, U2}, {U1, U2}, {U0, U1, U2})),
                  Some(CheckStatus({U0, U1, U2}, {U0, U1, U2}, {U0, U1, U2})),
                  Some(CheckStatus({U0, U1, U2}, {U1, U2}, {U0, U1, U2})) >>,
     ticks |-> Ticks]

\* test_idle_ping_pong: good, bad, good, bad, clock.tick(10) after each
ScriptPingPong ==
    [cfg |-> Kwargs(1, None, IdlePeriod),
     items |-> << Some(CheckStatus({U0}, {U0}, {U0})),
                  Some(CheckStatus({U0}, {U0}, {})),
                  Some(CheckStatus({U0}, {U0}, {U0})),
                  Some(CheckStatus({U0}, {U0}, {})) >>,
     ticks |-> {Tick}]

\* test_idle_period: the same record four times, clock.tick(10) after each
ScriptIdlePeriod ==
    [cfg |-> Kwargs(1, None, IdlePeriod),
     items |-> [i \in 1 .. 4 |-> Some(CheckStatus({U0}, {U0}, {U0}))],
     ticks |-> {Tick}]

\* test_wait_for_apps: two absent items
ScriptWaitForApps ==
    [cfg |-> Kwargs(0, None, 0),
     items |-> << None, None >>,
     ticks |-> Ticks]

TestScripts ==
    {ScriptAtLeastUnits, ScriptExactUnits, ScriptPingPong, ScriptIdlePeriod,
     ScriptWaitForApps}

\* t, a sequence of [item, now, rv], is the beginning of script sc
Follows(t, sc) ==
    /\ cfg = sc.cfg
    /\ Len(t) <= Len(sc.items)
    /\ \A i \in 1 .. Len(t) :
          /\ t[i].item = sc.items[i]
          /\ i > 1 => t[i].now - t[i - 1].now \in sc.ticks

\* the whole of script sc has been fed, and nothing else
Ran(sc) == on_script /\ Follows(trace, sc) /\ Len(trace) = Len(sc.items)

\* the verdicts of the run so far
Verdicts == [i \in 1 .. Len(trace) |-> trace[i].rv]

\* the script history after item `item` was consumed at time `now` with
\* verdict `verdict`
ObserveScript(item, now, verdict) ==
    LET t == Append(trace, [item |-> item, now |-> now, rv |-> verdict])
        on == on_script /\ \E sc \in TestScripts : Follows(t, sc)
    IN  /\ on_script' = on
        /\ trace' = IF on THEN t ELSE << >>

\* the idle history after the same
ObserveIdle(item, now) ==
    /\ all_idle' = (all_idle /\ (item = None \/ item[1].idle_units = item[1].units))
    /\ agent_idle_since' =
          IF item = None THEN agent_idle_since
          ELSE [name \in DOMAIN agent_idle_since \cup item[1].units |->
                  IF name \in item[1].units
                  THEN IF name \in item[1].idle_units
                       THEN MinT(Fin(now), Get(agent_idle_since, name))
                       ELSE Inf
                  ELSE agent_idle_since[name]]

\* LoopAbsent with a slip: the idle clocks are forgotten on an absent item
LoopAbsentForgets(tick) ==
    /\ pc = "running"
    /\ steps < MaxSteps
    /\ clock' = clock + tick
    /\ status' = None
    /\ rv' = Some(FALSE)
    /\ idle_since' = << >>
    /\ steps' = steps + 1
    /\ yielded' = yielded + 1
    /\ UNCHANGED <<cfg, pc>>
    /\ ObserveScript(None, clock', FALSE)
    /\ UNCHANGED skipVars

\* lines 50-52: an absent item yields False and touches nothing
LoopAbsent(tick) ==
    /\ pc = "running"
    /\ steps < MaxSteps
    /\ clock' = clock + tick
    /\ status' = None
    /\ rv' = Some(FALSE)
    /\ idle_since' = idle_since
    /\ steps' = steps + 1
    /\ yielded' = yielded + 1
    /\ UNCHANGED <<cfg, pc>>
    /\ ObserveScript(None, clock', FALSE)
    /\ UNCHANGED skipVars

\* LoopRecord with a slip: once True is yielded the generator returns
LoopRecordStopsOnTrue(st, tick) ==
    /\ pc = "running"
    /\ steps < MaxSteps
    /\ clock' = clock + tick
    /\ status' = Some(st)
    /\ idle_since' = UpdateIdleSince(idle_since, st, clock')
    /\ rv' = Some(LoopVerdict(idle_since', st, clock', cfg))
    /\ steps' = steps + 1
    /\ yielded' = yielded + 1
    /\ pc' = IF rv' = Some(TRUE) THEN "done" ELSE pc
    /\ UNCHANGED cfg
    /\ ObserveScript(Some(st), clock', LoopVerdict(idle_since', st, clock', cfg))
    /\ skip_idle_since' = UpdateIdleSince(skip_idle_since, st, clock')
    /\ skip_rv' = Some(LoopVerdict(skip_idle_since', st, clock', cfg))

\* lines 46-99: one record consumed, one boolean yielded
LoopRecord(st, tick) ==
    /\ pc = "running"
    /\ steps < MaxSteps
    /\ clock' = clock + tick
    /\ status' = Some(st)
    /\ idle_since' = UpdateIdleSince(idle_since, st, clock')
    /\ rv' = Some(LoopVerdict(idle_since', st, clock', cfg))
    /\ steps' = steps + 1
    /\ yielded' = yielded + 1
    /\ UNCHANGED <<cfg, pc>>
    /\ ObserveScript(Some(st), clock', LoopVerdict(idle_since', st, clock', cfg))
    /\ skip_idle_since' = UpdateIdleSince(skip_idle_since, st, clock')
    /\ skip_rv' = Some(LoopVerdict(skip_idle_since', st, clock', cfg))

\* line 46: the source is exhausted and the generator returns; its frame,
\* with idle_since and status, is gone
LoopExhausted ==
    /\ pc = "running"
    /\ pc' = "done"
    /\ idle_since' = << >>
    /\ status' = None
    /\ skip_idle_since' = << >>
    /\ UNCHANGED <<cfg, clock, rv, steps, yielded, on_script, trace, skip_rv>>

(***************************************************************************)
(* FullStatus snapshots                                                    *)
(*                                                                         *)
(* A snapshot is the fixture below, in the way of the unit tests'          *)
(* fullstatus.json and subordinate-fullstatus.json, with at most MaxEdits  *)
(* of its fields edited, as the tests of check() edit theirs.  Dicts are   *)
(* functions; the order in which a dict or the frozenset apps is iterated  *)
(* is an input the snapshot does not fix, so where the order decides       *)
(* (which of several offending units is reported) every order is allowed.  *)
(***************************************************************************)

\* number of fields of the fixture a snapshot may differ in
MaxEdits == 2

AppP == <<"p">>

AppUB == <<"u", "-", "b">>

AppMissing == <<"m", "i", "s", "s", "i", "n", "g">>

P0 == UnitName(AppP, 0)

P1 == UnitName(AppP, 1)

UB0 == UnitName(AppUB, 0)

\* DetailedStatus: a status string and its free-text info
Detailed(st, info) == [status |-> st, info |-> info]

\* the info texts name the status they belong to
InfoOf(what, name) == <<what, name>>

\* UnitStatus
Unit(name, machine, subordinates) ==
    [agent_status |-> Detailed("idle", InfoOf("agent", name)),
     workload_status |-> Detailed("active", InfoOf("workload", name)),
     machine |-> machine,
     subordinates |-> subordinates]

\* ApplicationStatus
Application(name, units, subordinate_to) ==
    [status |-> Detailed("active", InfoOf("app", name)),
     units |-> units,
     subordinate_to |-> subordinate_to]

\* MachineStatus
Machine(id) ==
    [instance_status |-> Detailed("running", InfoOf("machine", id))]

\* The fixture: principal application p with units p/0 on machine "0" and
\* p/1 on machine "1"; u and u-b are subordinate to p; p/0 carries u/0 and
\* u-b/0, p/1 carries u/1.  Everything is healthy: agents idle, workloads
\* and applications active, machines running.
Fixture ==
    [applications |->
        (AppP :> Application(AppP,
                    (P0 :> Unit(P0, "0",
                              (U0 :> Unit(U0, "", << >>)) @@
                              (UB0 :> Unit(UB0, "", << >>)))) @@
                    (P1 :> Unit(P1, "1", (U1 :> Unit(U1, "", << >>)))),
                    << >>)) @@
        (AppU :> Application(AppU, << >>, <<AppP>>)) @@
        (AppUB :> Application(AppUB, << >>, <<AppP>>)),
     machines |-> ("0" :> Machine("0")) @@ ("1" :> Machine("1"))]

PrincipalUnits == {P0, P1}

SubordinateUnits == {U0, U1, UB0}

\* the parent unit that carries subordinate unit `name` in the fixture
ParentOf(name) == IF name = U1 THEN P1 ELSE P0

\* the snapshot with unit `name` of the fixture replaced by `unit`
WithUnit(fs, name, unit) ==
    IF name \in PrincipalUnits
    THEN [fs EXCEPT !.applications[AppP].units[name] = unit]
    ELSE [fs EXCEPT
            !.applications[AppP].units[ParentOf(name)].subordinates[name] = unit]

\* unit `name` of the snapshot (it is there)
TheUnit(fs, name) ==
    IF name \in PrincipalUnits
    THEN fs.applications[AppP].units[name]
    ELSE fs.applications[AppP].units[ParentOf(name)].subordinates[name]

\* unit `name` is in the snapshot
HasUnit(fs, name) ==
    /\ AppP \in DOMAIN fs.applications
    /\ IF name \in PrincipalUnits
       THEN name \in DOMAIN fs.applications[AppP].units
       ELSE /\ ParentOf(name) \in DOMAIN fs.applications[AppP].units
            /\ name \in DOMAIN fs.applications[AppP].units[ParentOf(name)].subordinates

\* a dict without key k
Without(d, k) == [x \in DOMAIN d \ {k} |-> d[x]]

AgentStatuses == {"error", "executing"}

WorkloadStatuses == {"error", "blocked", "maintenance"}

AppStatuses == {"error", "blocked"}

(***************************************************************************)
(* check() and _app_units()                                                *)
(***************************************************************************)

\* _app_units with a slip: the nested entries are not told apart by their
\* application, every subordinate of the parent's units is taken
_app_unitsUnfiltered(fs, app_name) ==
    LET app == fs.applications[app_name]
    IN  IF app.subordinate_to # << >>
        THEN LET parent == fs.applications[app.subordinate_to[1]]
                 Carriers(n) ==
                     {pu \in DOMAIN parent.units :
                         n \in DOMAIN parent.units[pu].subordinates}
                 names ==
                     UNION {DOMAIN parent.units[pu].subordinates :
                               pu \in DOMAIN parent.units}
             IN  [n \in names |->
                    parent.units[CHOOSE pu \in Carriers(n) : TRUE].subordinates[n]]
        ELSE app.units

\* lines 199-221: the units of one application of the snapshot, as a dict
_app_units(fs, app_name) ==
    LET app == fs.applications[app_name]
    IN  IF app.subordinate_to # << >>
        THEN LET parent == fs.applications[app.subordinate_to[1]]
                 Carriers(n) ==
                     {pu \in DOMAIN parent.units :
                         n \in DOMAIN parent.units[pu].subordinates}
                 names ==
                     {n \in UNION {DOMAIN parent.units[pu].subordinates :
                                      pu \in DOMAIN parent.units} :
                         StartsWith(n, AppPrefix(app_name))}
             IN  [n \in names |->
                    parent.units[CHOOSE pu \in Carriers(n) : TRUE].subordinates[n]]
        ELSE app.units

\* lines 125-128: the dict units, the units of all of apps
UnitsOf(fs, apps) ==
    LET per == [a \in apps |-> _app_units(fs, a)]
        names == UNION {DOMAIN per[a] : a \in apps}
    IN  [n \in names |-> per[CHOOSE a \in apps : n \in DOMAIN per[a]][n]]

\* f"{x!r}": the text of x between quotes
Repr(x) == <<"'", x, "'">>

\* an exception: its class and the pieces of its message
Raise(type, msg) == [type |-> type, msg |-> msg]

\* lines 130-138
MachineErrors(fs, units, raise_on_error) ==
    {Raise("JujuMachineError",
           <<Repr(n), " machine ", Repr(units[n].machine), " has errored: ",
             Repr(fs.machines[units[n].machine].instance_status.info)>>) :
        n \in {n \in DOMAIN units :
                 /\ units[n].machine # ""
                 /\ fs.machines[units[n].machine].instance_status.status = "error"
                 /\ raise_on_error}}

\* AgentErrors with a slip: the message carries the info of the workload
\* status
AgentErrorsWorkloadInfo(units, raise_on_error) ==
    {Raise("JujuAgentError",
           <<Repr(n), " agent has errored: ", Repr(units[n].workload_status.info)>>) :
        n \in {n \in DOMAIN units :
                 units[n].agent_status.status = "error" /\ raise_on_error}}

\* lines 140-145
AgentErrors(units, raise_on_error) ==
    {Raise("JujuAgentError",
           <<Repr(n), " agent has errored: ", Repr(units[n].agent_status.info)>>) :
        n \in {n \in DOMAIN units :
                 units[n].agent_status.status = "error" /\ raise_on_error}}

\* lines 147-152
WorkloadErrors(units, raise_on_error) ==
    {Raise("JujuUnitError",
           <<Repr(n), " workload has errored: ", Repr(units[n].workload_status.info)>>) :
        n \in {n \in DOMAIN units :
                 units[n].workload_status.status = "error" /\ raise_on_error}}

\* AppErrors with a slip: every application of the snapshot is looked at
AppErrorsOfAnyApp(fs, apps, raise_on_error) ==
    {Raise("JujuAppError",
           <<Repr(a), " has errored: ", Repr(fs.applications[a].status.info)>>) :
        a \in {a \in DOMAIN fs.applications :
                 fs.applications[a].status.status = "error" /\ raise_on_error}}

\* lines 154-159
AppErrors(fs, apps, raise_on_error) ==
    {Raise("JujuAppError",
           <<Repr(a), " has errored: ", Repr(fs.applications[a].status.info)>>) :
        a \in {a \in apps :
                 fs.applications[a].status.status = "error" /\ raise_on_error}}

\* WorkloadBlocked with a slip: raise_on_blocked is not consulted
WorkloadBlockedUnasked(units, raise_on_blocked) ==
    {Raise("JujuUnitError",
           <<Repr(n), " workload is blocked: ", Repr(units[n].workload_status.info)>>) :
        n \in {n \in DOMAIN units : units[n].workload_status.status = "blocked"}}

\* lines 161-166
WorkloadBlocked(units, raise_on_blocked) ==
    {Raise("JujuUnitError",
           <<Repr(n), " workload is blocked: ", Repr(units[n].workload_status.info)>>) :
        n \in {n \in DOMAIN units :
                 units[n].workload_status.status = "blocked" /\ raise_on_blocked}}

\* lines 168-173
AppBlocked(fs, apps, raise_on_blocked) ==
    {Raise("JujuAppError",
           <<Repr(a), " is blocked: ", Repr(fs.applications[a].status.info)>>) :
        a \in {a \in apps :
                 fs.applications[a].status.status = "blocked" /\ raise_on_blocked}}

\* Raised with a slip: the loop over the applications' error status comes
\* first
RaisedAppsFirst(fs, apps, units, raise_on_error, raise_on_blocked) ==
    LET loops == << AppErrors(fs, apps, raise_on_error),
                    MachineErrors(fs, units, raise_on_error),
                    AgentErrors(units, raise_on_error),
                    WorkloadErrors(units, raise_on_error),
                    WorkloadBlocked(units, raise_on_blocked),
                    AppBlocked(fs, apps, raise_on_blocked) >>
        hit == {i \in 1 .. 6 : loops[i] # {}}
    IN  IF hit = {} THEN {}
        ELSE loops[CHOOSE i \in hit : \A j \in hit : i <= j]

\* lines 130-173: the six loops in order; the first that finds an offender
\* raises, for the offender its iteration meets first
Raised(fs, apps, units, raise_on_error, raise_on_blocked) ==
    LET loops == << MachineErrors(fs, units, raise_on_error),
                    AgentErrors(units, raise_on_error),
                    WorkloadErrors(units, raise_on_error),
                    AppErrors(fs, apps, raise_on_error),
                    WorkloadBlocked(units, raise_on_blocked),
                    AppBlocked(fs, apps, raise_on_blocked) >>
        hit == {i \in 1 .. 6 : loops[i] # {}}
    IN  IF hit = {} THEN {}
        ELSE loops[CHOOSE i \in hit : \A j \in hit : i <= j]

\* `if status`, for check()'s argument status: None or empty is no target
Truthy(target) == target # None /\ target[1] # ""

\* IsReady with a slip: the workload status alone decides
IsReadyWhateverAgent(unit, target) ==
    ~(Truthy(target) /\ unit.workload_status.status # target[1])

\* lines 186-192: the unit counts as ready
IsReady(unit, target) ==
    /\ ~(unit.agent_status.status # "idle")
    /\ ~(Truthy(target) /\ unit.workload_status.status # target[1])

\* Returned with a slip: the subordinates a ready unit carries are put among
\* the ready units with it
ReturnedWithSubordinates(units, target) ==
    CheckStatus(DOMAIN units,
                UNION {{n} \cup DOMAIN units[n].subordinates :
                          n \in {n \in DOMAIN units : IsReady(units[n], target)}},
                {})

\* lines 175-196: the CheckStatus returned, _app_units() giving again what
\* it gave for the dict units; idle_units is never filled
Returned(units, target) ==
    CheckStatus(DOMAIN units,
                {n \in DOMAIN units : IsReady(units[n], target)},
                {})

\* how check() ends: by "return" or "raise", with what value, and with what
\* in its local dict units
Exit(kind, value, units) == [kind |-> kind, value |-> value, units |-> units]

\* check with a slip: the statuses of the applications that are there are
\* looked at before the missing ones are noticed
checkRaisesFirst(fs, apps, raise_on_error, raise_on_blocked, target) ==
    LET there == apps \cap DOMAIN fs.applications
        units == UnitsOf(fs, there)
        raised == Raised(fs, there, units, raise_on_error, raise_on_blocked)
    IN  IF raised # {}
        THEN {Exit("raise", e, units) : e \in raised}
        ELSE IF there # apps
        THEN {Exit("return", None, << >>)}
        ELSE {Exit("return", Some(Returned(units, target)), units)}

\* check with a slip: no units to report is taken for nothing to report yet
checkNoneWithoutUnits(fs, apps, raise_on_error, raise_on_blocked, target) ==
    IF \E a \in apps : a \notin DOMAIN fs.applications
    THEN {Exit("return", None, << >>)}
    ELSE LET units == UnitsOf(fs, apps)
             raised == Raised(fs, apps, units, raise_on_error, raise_on_blocked)
         IN  IF raised # {}
             THEN {Exit("raise", e, units) : e \in raised}
             ELSE IF DOMAIN units = {}
             THEN {Exit("return", None, units)}
             ELSE {Exit("return", Some(Returned(units, target)), units)}

\* lines 102-196: everything a call of check() may do
check(fs, apps, raise_on_error, raise_on_blocked, target) ==
    IF \E a \in apps : a \notin DOMAIN fs.applications
    THEN {Exit("return", None, << >>)}
    ELSE LET units == UnitsOf(fs, apps)
             raised == Raised(fs, apps, units, raise_on_error, raise_on_blocked)
         IN  IF raised # {}
             THEN {Exit("raise", e, units) : e \in raised}
             ELSE {Exit("return", Some(Returned(units, target)), units)}

(***************************************************************************)
(* One snapshot, one call                                                  *)
(***************************************************************************)

\* apps: applications of the fixture, or one the fixture does not have
AppsArgs ==
    {{}, {AppP}, {AppU}, {AppUB}, {AppU, AppUB}, {AppP, AppU},
     {AppP, AppU, AppUB}, {AppMissing}}

\* <<raise_on_error, raise_on_blocked, status>>: every pair of flags without
\* a target status; "active" with both flags off, "maintenance" with both on
FlagArgs ==
    {<<roe, rob, None>> : roe \in BOOLEAN, rob \in BOOLEAN}
        \cup {<<FALSE, FALSE, Some("active")>>, <<TRUE, TRUE, Some("maintenance")>>}

CanEdit == call = None /\ edits < MaxEdits

Edited(fs) ==
    /\ full_status' = fs
    /\ edits' = edits + 1
    /\ UNCHANGED <<call, scope_units, outcome>>

\* as test_agent_error and test_ready_unit_requires_idle_agent edit the fixture
EditAgent(name, st) ==
    /\ CanEdit
    /\ HasUnit(full_status, name)
    /\ LET unit == TheUnit(full_status, name)
       IN  Edited(WithUnit(full_status, name,
                           [unit EXCEPT !.agent_status.status = st]))

\* as test_workload_error, test_unit_blocked and test_maintenance do
EditWorkload(name, st) ==
    /\ CanEdit
    /\ HasUnit(full_status, name)
    /\ LET unit == TheUnit(full_status, name)
       IN  Edited(WithUnit(full_status, name,
                           [unit EXCEPT !.workload_status.status = st]))

\* as test_machine_error does
EditMachine(id) ==
    /\ CanEdit
    /\ Edited([full_status EXCEPT
                 !.machines[id].instance_status.status = "error"])

\* as test_app_error and test_app_blocked do
EditApp(a, st) ==
    /\ CanEdit
    /\ a \in DOMAIN full_status.applications
    /\ Edited([full_status EXCEPT !.applications[a].status.status = st])

\* a subordinate application that is not in the snapshot yet
RemoveApp(a) ==
    /\ CanEdit
    /\ a \in DOMAIN full_status.applications
    /\ Edited([full_status EXCEPT !.applications = Without(@, a)])

\* as test_no_units does
ClearUnits ==
    /\ CanEdit
    /\ Edited([full_status EXCEPT !.applications[AppP].units = << >>])

\* a parent unit that does not carry subordinate unit `name`
RemoveSubordinate(name) ==
    /\ CanEdit
    /\ HasUnit(full_status, name)
    /\ Edited([full_status EXCEPT
                 !.applications[AppP].units[ParentOf(name)].subordinates =
                     Without(@, name)])

\* the call: check(full_status, apps=..., raise_on_error=..., ...)
Check(apps, raise_on_error, raise_on_blocked, st) ==
    /\ call = None
    /\ call' = Some([apps |-> apps, raise_on_error |-> raise_on_error,
                     raise_on_blocked |-> raise_on_blocked, status |-> st])
    /\ \E exit \in check(full_status, apps, raise_on_error, raise_on_blocked, st) :
          /\ outcome' = [kind |-> exit.kind, value |-> exit.value]
          /\ scope_units' = exit.units
    /\ UNCHANGED <<full_status, edits>>

\* the next test starts from the fixture again
NextSnapshot ==
    /\ call # None
    /\ full_status' = Fixture
    /\ edits' = 0
    /\ call' = None
    /\ scope_units' = << >>
    /\ outcome' = None

\* loop() before its first item; check() not called
InitLoop ==
    /\ cfg \in Configs
    /\ clock = 0
    /\ idle_since = << >>
    /\ status = None
    /\ rv = None
    /\ steps = 0
    /\ yielded = 0
    /\ pc = "running"
    /\ second = None
    /\ settled = None
    /\ agent_idle_since = << >>
    /\ all_idle = TRUE
    /\ on_script = TRUE
    /\ trace = << >>
    /\ skip_idle_since = << >>
    /\ skip_rv = None
    /\ full_status = Fixture
    /\ edits = 0
    /\ call = None
    /\ scope_units = << >>
    /\ outcome = None

\* the fixture before check() is called; loop() not started
InitCheck ==
    /\ full_status = Fixture
    /\ edits = 0
    /\ call = None
    /\ scope_units = << >>
    /\ outcome = None
    /\ cfg = Kwargs(0, None, 0)
    /\ clock = 0
    /\ idle_since = << >>
    /\ status = None
    /\ rv = None
    /\ steps = 0
    /\ yielded = 0
    /\ pc = "running"
    /\ second = None
    /\ settled = None
    /\ agent_idle_since = << >>
    /\ all_idle = TRUE
    /\ on_script = TRUE
    /\ trace = << >>
    /\ skip_idle_since = << >>
    /\ skip_rv = None

\* the aggregator alone: the idle history is not observed, check() not called
NextLoop ==
    \/ \E tick \in Ticks : LoopAbsent(tick) /\ UNCHANGED <<idleHist, checkVars, second, settled>>
    \/ \E st \in Records, tick \in Ticks :
          LoopRecord(st, tick) /\ UNCHANGED <<idleHist, checkVars, second, settled>>
    \/ LoopExhausted /\ UNCHANGED <<idleHist, checkVars, second, settled>>

SpecLoop == InitLoop /\ [][NextLoop]_vars

\* the aggregator with the idle history of its input observed
NextLoopHist ==
    \/ \E tick \in Ticks :
          LoopAbsent(tick) /\ ObserveIdle(None, clock')
              /\ UNCHANGED <<checkVars, second, settled>>
    \/ \E st \in Records, tick \in Ticks :
          LoopRecord(st, tick) /\ ObserveIdle(Some(st), clock')
              /\ UNCHANGED <<checkVars, second, settled>>
    \/ LoopExhausted /\ UNCHANGED <<idleHist, checkVars, second, settled>>

SpecLoopHist == InitLoop /\ [][NextLoopHist]_vars

\* check() alone: snapshots are built and checked, loop() is not started
NextCheck ==
    \/ \E n \in PrincipalUnits \cup SubordinateUnits, st \in AgentStatuses :
          EditAgent(n, st) /\ UNCHANGED <<loopVars, histVars, second, settled>>
    \/ \E n \in PrincipalUnits \cup SubordinateUnits, st \in WorkloadStatuses :
          EditWorkload(n, st) /\ UNCHANGED <<loopVars, histVars, second, settled>>
    \/ \E id \in {"0", "1"} : EditMachine(id) /\ UNCHANGED <<loopVars, histVars, second, settled>>
    \/ \E a \in {AppP, AppU, AppUB}, st \in AppStatuses :
          EditApp(a, st) /\ UNCHANGED <<loopVars, histVars, second, settled>>
    \/ \E a \in {AppU, AppUB} : RemoveApp(a) /\ UNCHANGED <<loopVars, histVars, second, settled>>
    \/ ClearUnits /\ UNCHANGED <<loopVars, histVars, second, settled>>
    \/ \E n \in SubordinateUnits :
          RemoveSubordinate(n) /\ UNCHANGED <<loopVars, histVars, second, settled>>
    \/ \E apps \in AppsArgs, f \in FlagArgs :
          Check(apps, f[1], f[2], f[3]) /\ UNCHANGED <<loopVars, histVars, second, settled>>
    \/ NextSnapshot /\ UNCHANGED <<loopVars, histVars, second, settled>>

SpecCheck == InitCheck /\ [][NextCheck]_vars

(***************************************************************************)
(* Claims about loop()                                                     *)
(***************************************************************************)

\* C1: a true verdict at time `now` means that every unit of the current
\* record has been in idle_units in every record showing it since an
\* observation at or before now - idle_period; and test_idle_period's four
\* fully-ready records, 10 apart, with wait_for_units=1 and idle_period=15
\* yield [False, False, True, True].
C1_TrueOnlyAfterIdlePeriod ==
    /\ (status # None /\ rv = Some(TRUE)) =>
          \A n \in status[1].units :
              ~GtT(Get(agent_idle_since, n), clock - cfg.idle_period)
    /\ Ran(ScriptIdlePeriod) => Verdicts = <<FALSE, FALSE, TRUE, TRUE>>

\* C2: with every unit of every record in idle_units and idle_period=0 (and
\* no exact count), the verdict is true as soon as every application has at
\* least wait_for_units ready units, whatever the other visible units do;
\* test_at_least_units yields [False, True, True].
C2_TrueWithEnoughReadyUnits ==
    /\ ( /\ status # None
         /\ all_idle
         /\ cfg.idle_period = 0
         /\ cfg.wait_for_exact_units = None ) =>
          rv = Some(\A a \in cfg.apps :
                      Cardinality(ReadyUnitsOf(status[1], a)) >= cfg.wait_for_units)
    /\ Ran(ScriptAtLeastUnits) => Verdicts = <<FALSE, TRUE, TRUE>>

\* C3: with wait_for_exact_units set (not below wait_for_units), all units
\* idle and idle_period=0, the verdict is true exactly on the steps where
\* the ready-unit count of every application equals wait_for_exact_units,
\* and is not latched; test_for_exact_units yields [False, True, False, True].
C3_TrueExactlyOnExactCount ==
    /\ ( /\ status # None
         /\ all_idle
         /\ cfg.idle_period = 0
         /\ cfg.wait_for_exact_units # None
         /\ cfg.wait_for_units <= cfg.wait_for_exact_units[1] ) =>
          rv = Some(\A a \in cfg.apps :
                      Cardinality(ReadyUnitsOf(status[1], a))
                          = cfg.wait_for_exact_units[1])
    /\ Ran(ScriptExactUnits) => Verdicts = <<FALSE, TRUE, FALSE, TRUE>>

\* C4: the idle clocks are driven by idle_units, not ready_units: the dict
\* idle_since is what the records' idle_units make it (min(existing, now)
\* for a unit in idle_units, inf for a visible unit that is not); and
\* test_idle_ping_pong, whose unit stays ready but is idle only every other
\* time, yields [False, False, False, False].
C4_ClockDrivenByIdleUnits ==
    /\ pc = "running" => idle_since = agent_idle_since
    /\ Ran(ScriptPingPong) => Verdicts = <<FALSE, FALSE, FALSE, FALSE>>

\* C5: an absent item yields False, for every configuration, and leaves
\* the idle clocks as they were, so every later verdict is the one of a
\* loop() that was never fed the absent items.
C5_AbsentYieldsFalseAndChangesNothing ==
    /\ [][(steps' = steps + 1 /\ status' = None) =>
            (rv' = Some(FALSE) /\ idle_since' = idle_since)]_vars
    /\ [](pc = "running" => idle_since = skip_idle_since)
    /\ [](status # None => rv = skip_rv)

\* an absent item was consumed after records had set idle clocks, with
\* wait_for_units=0 and idle_period=0, and False was yielded
C5_Witness ==
    /\ pc = "running"
    /\ status = None
    /\ steps >= 2
    /\ rv = Some(FALSE)
    /\ cfg.wait_for_units = 0
    /\ cfg.idle_period = 0
    /\ cfg.wait_for_exact_units = None
    /\ \E n \in DOMAIN idle_since : ~idle_since[n].inf

(***************************************************************************)
(* Claims about check()                                                    *)
(***************************************************************************)

\* check() has been called
Called == call # None

\* an application named in apps is not in the snapshot
AppMissingFromSnapshot ==
    \E a \in call[1].apps : a \notin DOMAIN full_status.applications

\* check() returned a CheckStatus
ReturnedRecord == outcome # None /\ outcome.kind = "return" /\ outcome.value # None

\* The six failure categories, in the order of precedence, as the snapshot
\* shows them (flags aside): 1 machine error, 2 agent error, 3 workload
\* error, 4 application error, 5 workload blocked, 6 application blocked.
\* Shown[i] tells whether category i shows among what is in scope.
Shown ==
    LET apps == call[1].apps
    IN  << \E n \in DOMAIN scope_units :
              /\ scope_units[n].machine # ""
              /\ full_status.machines[scope_units[n].machine]
                     .instance_status.status = "error",
           \E n \in DOMAIN scope_units : scope_units[n].agent_status.status = "error",
           \E n \in DOMAIN scope_units : scope_units[n].workload_status.status = "error",
           \E a \in apps : full_status.applications[a].status.status = "error",
           \E n \in DOMAIN scope_units : scope_units[n].workload_status.status = "blocked",
           \E a \in apps : full_status.applications[a].status.status = "blocked" >>

\* the flag that lets category i raise
Flag(i) == IF i <= 4 THEN call[1].raise_on_error ELSE call[1].raise_on_blocked

\* the category of a raised error, by its class and the text of its message
Category(e) ==
    CASE e.type = "JujuMachineError" -> 1
      [] e.type = "JujuAgentError" -> 2
      [] e.type = "JujuUnitError" /\ e.msg[2] = " workload has errored: " -> 3
      [] e.type = "JujuAppError" /\ e.msg[2] = " has errored: " -> 4
      [] e.type = "JujuUnitError" /\ e.msg[2] = " workload is blocked: " -> 5
      [] e.type = "JujuAppError" /\ e.msg[2] = " is blocked: " -> 6

\* C6: whenever an application named in apps is not in the snapshot, check()
\* returns None and raises nothing, whatever the flags and whatever error or
\* blocked statuses the snapshot shows.
C6_MissingAppReturnsNone ==
    (Called /\ AppMissingFromSnapshot) =>
        outcome = [kind |-> "return", value |-> None]

\* an application is missing while both flags are set and another named
\* application, which is there, is in error: None is returned
C6_Witness ==
    /\ Called /\ AppMissingFromSnapshot
    /\ call[1].raise_on_error /\ call[1].raise_on_blocked
    /\ \E a \in call[1].apps \cap DOMAIN full_status.applications :
          full_status.applications[a].status.status = "error"
    /\ outcome = [kind |-> "return", value |-> None]

\* C7: when several failure categories show among the units and applications
\* in scope and their flags are set, check() raises the error of the category
\* of highest precedence: machine error > agent error > workload error >
\* application error > workload blocked > application blocked, whichever
\* unit or application carries it.
C7_HighestPrecedenceRaised ==
    (Called /\ ~AppMissingFromSnapshot) =>
        LET shown == Shown
        IN  \A i \in 1 .. 6 :
                ( /\ shown[i] /\ Flag(i)
                  /\ \A j \in 1 .. i - 1 : ~(shown[j] /\ Flag(j)) ) =>
                    (outcome.kind = "raise" /\ Category(outcome.value) = i)

\* a machine error on one unit and an application in error at once, with
\* raise_on_error: the machine error is raised
C7_Witness ==
    /\ Called /\ ~AppMissingFromSnapshot
    /\ Shown[1] /\ Shown[4] /\ Flag(1)
    /\ outcome.kind = "raise"
    /\ outcome.value.type = "JujuMachineError"

\* C8: an error-status error is raised only with raise_on_error, a
\* blocked-status error only with raise_on_blocked; with both flags off
\* check() raises nothing and returns a record or None, whatever the
\* snapshot shows.
C8_RaisesOnlyWhenAsked ==
    Called =>
        /\ outcome.kind = "raise" => Flag(Category(outcome.value))
        /\ (~call[1].raise_on_error /\ ~call[1].raise_on_blocked) =>
              outcome.kind = "return"

\* both flags off, a unit in scope blocked and another thing in error: a
\* record is returned
C8_Witness ==
    /\ Called /\ ~AppMissingFromSnapshot
    /\ ~call[1].raise_on_error /\ ~call[1].raise_on_blocked
    /\ Shown[5]
    /\ \E i \in 1 .. 4 : Shown[i]
    /\ ReturnedRecord

\* C9: in the record returned, a unit is in idle_units if and only if its
\* agent status is "idle", whatever its workload status and the target
\* status.
C9_IdleUnitsAreIdleAgents ==
    (Called /\ ReturnedRecord) =>
        \A n \in outcome.value[1].units :
            n \in outcome.value[1].idle_units
                <=> scope_units[n].agent_status.status = "idle"

AppOf(n) ==
    LET slash == CHOOSE i \in 1 .. Len(n) :
                     n[i] = "/" /\ \A j \in 1 .. i - 1 : n[j] # "/"
    IN  SubSeq(n, 1, slash - 1)

\* the nested subordinate entries of application a: over all units of its
\* first listed parent application, the entries whose key is a unit of a
NestedUnits(a) ==
    LET parent == full_status.applications[full_status.applications[a].subordinate_to[1]]
    IN  {n \in UNION {DOMAIN parent.units[pu].subordinates :
                          pu \in DOMAIN parent.units} : AppOf(n) = a}

\* the units of application a as the snapshot lists them: the nested
\* entries for a subordinate, the application's own units otherwise
ListedUnits(a) ==
    IF full_status.applications[a].subordinate_to # << >>
    THEN NestedUnits(a)
    ELSE DOMAIN full_status.applications[a].units

\* C11: the units check() attributes to a subordinate application are
\* exactly the nested subordinate entries, over all units of its first
\* listed parent application, whose key starts with "<app>/"; entries of
\* other subordinate applications are left out, and an application no parent
\* unit carries an entry for has no units, which is no error.
C11_SubordinateUnits ==
    (Called /\ ~AppMissingFromSnapshot) =>
        /\ DOMAIN scope_units = UNION {ListedUnits(a) : a \in call[1].apps}
        /\ \A n \in DOMAIN scope_units : scope_units[n] = TheUnit(full_status, n)
        /\ ReturnedRecord => outcome.value[1].units = DOMAIN scope_units

\* u is named and u-b is not; both parent units carry a unit of u and one
\* carries a unit of u-b as well: the record has the units of u only
C11_Witness ==
    /\ Called /\ ReturnedRecord
    /\ call[1].apps = {AppU}
    /\ HasUnit(full_status, UB0)
    /\ outcome.value[1].units = {U0, U1}

(***************************************************************************)
(* loop() waiting for two applications, u and u-b                          *)
(***************************************************************************)

\* the units the records show: two of u, one of u-b
AppsUnits == {U0, U1, UB0}

\* the records fed: all three units, one of each application or the unit of
\* u-b alone are visible, any of them ready
RecordsApps ==
    UNION {{CheckStatus(us, r, us) : r \in SUBSET us} :
              us \in {AppsUnits, {U0, UB0}, {UB0}}}

ConfigsApps ==
    [apps : {{AppU, AppUB}},
     wait_for_units : 0 .. MaxWait,
     wait_for_exact_units : {None, Some(ExactUnits)},
     idle_period : {0, IdlePeriod}]

\* loop(apps={"u", "u-b"}, ...) before its first item
InitLoopApps ==
    /\ cfg \in ConfigsApps
    /\ clock = 0
    /\ idle_since = << >>
    /\ status = None
    /\ rv = None
    /\ steps = 0
    /\ yielded = 0
    /\ pc = "running"
    /\ second = None
    /\ settled = None
    /\ agent_idle_since = << >>
    /\ all_idle = TRUE
    /\ on_script = TRUE
    /\ trace = << >>
    /\ skip_idle_since = << >>
    /\ skip_rv = None
    /\ full_status = Fixture
    /\ edits = 0
    /\ call = None
    /\ scope_units = << >>
    /\ outcome = None

NextLoopApps ==
    \/ \E tick \in Ticks : LoopAbsent(tick) /\ UNCHANGED <<idleHist, checkVars, second, settled>>
    \/ \E st \in RecordsApps, tick \in Ticks :
          LoopRecord(st, tick) /\ UNCHANGED <<idleHist, checkVars, second, settled>>
    \/ LoopExhausted /\ UNCHANGED <<idleHist, checkVars, second, settled>>

SpecLoopApps == InitLoopApps /\ [][NextLoopApps]_vars

\* the ready units of the record that belong to application a
ReadyOf(a) == {n \in status[1].ready_units : AppOf(n) = a}

\* application a has its ready units: at least wait_for_units and, when
\* wait_for_exact_units is set, exactly that many
AppCountOk(a) ==
    /\ Cardinality(ReadyOf(a)) >= cfg.wait_for_units
    /\ cfg.wait_for_exact_units # None =>
          Cardinality(ReadyOf(a)) = cfg.wait_for_exact_units[1]

\* no idle clock is later than now - idle_period
IdleConditionHolds ==
    \A n \in DOMAIN idle_since :
        ~idle_since[n].inf /\ idle_since[n].t <= clock - cfg.idle_period

\* C12: True is yielded only if the idle condition holds and every
\* application of apps, its ready units counted by the prefix "<app>/", has
\* at least wait_for_units of them and, when wait_for_exact_units is set,
\* exactly that many; one application falling short forces False whatever
\* the other applications and the total show.
C12_TrueOnlyIfEveryAppCounts ==
    (status # None /\ rv = Some(TRUE)) =>
        /\ IdleConditionHolds
        /\ \A a \in cfg.apps : AppCountOk(a)

\* u has its two ready units and u-b only one, three ready units in all,
\* every clock is old enough: False is yielded
C12_Witness ==
    /\ status # None
    /\ cfg.apps = {AppU, AppUB}
    /\ cfg.wait_for_units = 2
    /\ cfg.wait_for_exact_units = None
    /\ status[1].ready_units = AppsUnits
    /\ IdleConditionHolds
    /\ rv = Some(FALSE)

\* the verdict that reads the clocks of the units of the current record
\* only
VerdictOfPresentUnits ==
    /\ CountsOk(status[1], cfg)
    /\ \A n \in status[1].units :
          ~GtT(Get(idle_since, n), clock - cfg.idle_period)

\* C13: the clocks of units that are no longer in the records are inert:
\* the verdict depends on the units of the current record only, so a unit
\* last seen not idle that is gone from the later records does not keep
\* them from yielding True.
C13_StaleClocksAreInert ==
    status # None => rv = Some(VerdictOfPresentUnits)

(***************************************************************************)
(* What a call of check() has in scope                                     *)
(***************************************************************************)

\* a unit with its own statuses as the fixture has them
Healthy(unit) ==
    [unit EXCEPT !.agent_status.status = "idle",
                 !.workload_status.status = "active"]

\* The snapshot with everything outside the scope of apps as the fixture has
\* it.  In scope are: the applications of apps, with their status and their
\* units; the nested entries of the subordinates of apps, and with them the
\* parent units that carry them, but not those units' own statuses; the
\* machines of the units of apps.  Outside: the status and the presence of
\* other applications, the statuses of their units and nested entries,
\* the other machines.
Scoped(fs, apps) ==
    LET ScopedUnit(a, u) ==
            LET own == IF a \in apps THEN u ELSE Healthy(u)
            IN  [own EXCEPT !.subordinates =
                    [n \in DOMAIN u.subordinates |->
                        IF AppOf(n) \in apps
                        THEN u.subordinates[n]
                        ELSE Healthy(u.subordinates[n])]]
        ScopedApp(a) ==
            IF a \notin DOMAIN fs.applications
            THEN Fixture.applications[a]
            ELSE LET app == fs.applications[a]
                 IN  [status |-> IF a \in apps THEN app.status
                                 ELSE [app.status EXCEPT !.status = "active"],
                      subordinate_to |-> app.subordinate_to,
                      units |-> [pu \in DOMAIN app.units |->
                                    ScopedUnit(a, app.units[pu])]]
        kept == DOMAIN fs.applications
                    \cup (DOMAIN Fixture.applications \ apps)
        used == UNION {{fs.applications[a].units[pu].machine :
                           pu \in DOMAIN fs.applications[a].units} :
                          a \in apps \cap DOMAIN fs.applications}
    IN  [applications |-> [a \in kept |-> ScopedApp(a)],
         machines |-> [id \in DOMAIN fs.machines |->
                          IF id \in used THEN fs.machines[id]
                          ELSE Fixture.machines[id]]]

\* what check() may do on the snapshot reduced to what is in scope
OutcomesInScope ==
    {[kind |-> exit.kind, value |-> exit.value] :
        exit \in check(Scoped(full_status, call[1].apps), call[1].apps,
                       call[1].raise_on_error, call[1].raise_on_blocked,
                       call[1].status)}

\* C14: what check() does depends only on what is in scope of apps: the
\* named applications, the parent units carrying the named subordinates and
\* the machines of the units in scope.  Units of other applications are not
\* in the record, and statuses outside the scope never make it raise: the
\* outcome is the one for the snapshot that agrees on the scope and is
\* healthy elsewhere.
C14_CheckIsSelective ==
    Called =>
        /\ outcome \in OutcomesInScope
        /\ ReturnedRecord =>
              \A n \in outcome.value[1].units : AppOf(n) \in call[1].apps

\* only u is named, both flags are set, and the parent application p, which
\* is not named, is in error: a record of the units of u is returned
C14_Witness ==
    /\ Called /\ ReturnedRecord
    /\ call[1].apps = {AppU}
    /\ call[1].raise_on_error /\ call[1].raise_on_blocked
    /\ full_status.applications[AppP].status.status = "error"
    /\ outcome.value[1].units # {}

\* C15: in every record check() returns, ready_units and idle_units are
\* subsets of units.
C15_SubsetsOfUnits ==
    (Called /\ ReturnedRecord) =>
        /\ outcome.value[1].ready_units \subseteq outcome.value[1].units
        /\ outcome.value[1].idle_units \subseteq outcome.value[1].units

\* a record with several units, some of them ready and some not
C15_Witness ==
    /\ Called /\ ReturnedRecord
    /\ outcome.value[1].ready_units # {}
    /\ outcome.value[1].ready_units # outcome.value[1].units
    /\ Cardinality(outcome.value[1].units) >= 3

\* CheckStatus(set(), set(), set())
EmptyRecord == CheckStatus({}, {}, {})

\* C16: with apps empty check() returns the empty record, not None and not
\* an error, whatever the snapshot shows; and when the named applications
\* are there and have no units, what it returns is the empty record, not
\* None.
C16_EmptyRecord ==
    Called =>
        /\ call[1].apps = {} =>
              outcome = [kind |-> "return", value |-> Some(EmptyRecord)]
        /\ ( /\ ~AppMissingFromSnapshot
             /\ \A a \in call[1].apps : ListedUnits(a) = {}
             /\ outcome.kind = "return" ) =>
                outcome.value = Some(EmptyRecord)

\* apps is empty, both flags are set and the snapshot has a unit whose
\* agent is in error: the empty record is returned
C16_Witness ==
    /\ Called
    /\ call[1].apps = {}
    /\ call[1].raise_on_error /\ call[1].raise_on_blocked
    /\ \E n \in PrincipalUnits :
          /\ HasUnit(full_status, n)
          /\ TheUnit(full_status, n).agent_status.status = "error"
    /\ outcome = [kind |-> "return", value |-> Some(EmptyRecord)]

(***************************************************************************)
(* Two invocations of loop(), their steps interleaved                      *)
(***************************************************************************)

\* the records fed to either invocation: nothing or everything is ready
TwoLoopRecords ==
    {CheckStatus(us, r, us) : us \in UnitSets, r \in {{}}} \cup
    {CheckStatus(us, us, us) : us \in UnitSets}

\* NewIdleSince with a slip: the dict is not made anew for the invocation,
\* the one that is around is taken
SharedIdleSince == idle_since

\* line 44: idle_since: dict[str, float] = {}
NewIdleSince == << >>

\* loop(...) is called a second time, while the first invocation runs or
\* after it has ended.  alone_idle_since and alone_rv are history: the dict
\* and the verdict of an invocation fed the same items at the same times
\* with no other invocation around.
SecondCall ==
    /\ second = None
    /\ second' = Some([idle_since |-> NewIdleSince, rv |-> None, steps |-> 0,
                       alone_idle_since |-> << >>, alone_rv |-> None])
    /\ UNCHANGED <<loopVars, histVars, checkVars, settled>>

\* lines 46-99, in the second invocation: one record consumed, one boolean
\* yielded
SecondRecord(st, tick) ==
    /\ second # None
    /\ steps + second[1].steps < MaxSteps
    /\ clock' = clock + tick
    /\ LET d == UpdateIdleSince(second[1].idle_since, st, clock')
           alone == UpdateIdleSince(second[1].alone_idle_since, st, clock')
       IN  second' = Some([idle_since |-> d,
                           rv |-> Some(LoopVerdict(d, st, clock', cfg)),
                           steps |-> second[1].steps + 1,
                           alone_idle_since |-> alone,
                           alone_rv |-> Some(LoopVerdict(alone, st, clock', cfg))])
    /\ UNCHANGED <<cfg, idle_since, status, rv, steps, yielded, pc>>
    /\ UNCHANGED <<histVars, checkVars, settled>>

\* the items consumed by the two invocations together
TotalSteps == steps + (IF second = None THEN 0 ELSE second[1].steps)

\* loop() without an exact count, before its first item; no second
\* invocation yet
InitTwoLoops ==
    /\ cfg \in {c \in Configs : c.wait_for_exact_units = None}
    /\ clock = 0
    /\ idle_since = << >>
    /\ status = None
    /\ rv = None
    /\ steps = 0
    /\ yielded = 0
    /\ pc = "running"
    /\ second = None
    /\ settled = None
    /\ agent_idle_since = << >>
    /\ all_idle = TRUE
    /\ on_script = TRUE
    /\ trace = << >>
    /\ skip_idle_since = << >>
    /\ skip_rv = None
    /\ full_status = Fixture
    /\ edits = 0
    /\ call = None
    /\ scope_units = << >>
    /\ outcome = None

\* the two invocations consume MaxSteps items together; the second is fed
\* at the time the clock shows
NextTwoLoops ==
    \/ \E st \in TwoLoopRecords, tick \in Ticks :
          /\ TotalSteps < MaxSteps
          /\ LoopRecord(st, tick)
          /\ UNCHANGED <<idleHist, checkVars, second, settled>>
    \/ LoopExhausted /\ UNCHANGED <<idleHist, checkVars, second, settled>>
    \/ SecondCall
    \/ \E st \in TwoLoopRecords : SecondRecord(st, 0)

SpecTwoLoops == InitTwoLoops /\ [][NextTwoLoops]_vars

\* C17: the idle clocks belong to one invocation of loop() and start empty:
\* with the steps of two invocations interleaved in any order, each yields
\* what it would yield alone on its own items and times, and an invocation
\* has nothing of the idle history of an earlier one.
C17_OwnIdleClocks ==
    /\ status # None => (rv = skip_rv /\ idle_since = skip_idle_since)
    /\ second # None =>
          /\ second[1].rv = second[1].alone_rv
          /\ second[1].idle_since = second[1].alone_idle_since
          /\ second[1].steps = 0 => second[1].idle_since = << >>

\* the first invocation has a unit that is not ready on its clocks and
\* yielded False; the second, called after that and fed a record in which
\* every unit is ready, yielded True
C17_Witness ==
    /\ pc = "running"
    /\ rv = Some(FALSE)
    /\ \E n \in DOMAIN idle_since : idle_since[n].inf
    /\ second # None
    /\ second[1].rv = Some(TRUE)

\* C18: loop() yields exactly one boolean per item, record or None, and
\* has no end of its own: it returns only when the source is exhausted, and
\* after yielding True it goes on consuming, each item judged by the same
\* rule.
C18_OneBooleanPerItem ==
    /\ [](yielded = steps)
    /\ [][steps' = steps + 1 =>
            (yielded' = yielded + 1 /\ rv' \in {Some(TRUE), Some(FALSE)})]_vars
    /\ [][(pc = "running" /\ pc' = "done") =>
            (steps' = steps /\ yielded' = yielded)]_vars
    /\ [](status # None =>
            rv = Some(IdleConditionHolds /\ \A a \in cfg.apps : AppCountOk(a)))

\* test_idle_period has run: True was yielded for the third item, the
\* fourth was consumed and judged, four booleans for four items
C18_Witness ==
    /\ Ran(ScriptIdlePeriod)
    /\ Verdicts = <<FALSE, FALSE, TRUE, TRUE>>
    /\ steps = 4
    /\ yielded = 4
    /\ pc = "running"

\* what a piece f"{x!r}" of a message names: the text between the quotes
Named(piece) == piece[2]

\* C19: every error check() raises names the offender and carries the info
\* of the very status that made it raise: a machine error names the unit
\* and its machine and carries the info of the machine's instance status,
\* an agent error names the unit and carries the info of its agent status,
\* a workload error or blocked names the unit and carries the info of its
\* workload status, an application error or blocked names the application
\* and carries the info of its status.
C19_ErrorsNameTheOffender ==
    (Called /\ outcome.kind = "raise") =>
        LET e == outcome.value
            c == Category(e)
            who == Named(e.msg[1])
            info == Named(e.msg[Len(e.msg)])
        IN  /\ c \in {1, 2, 3, 5} => who \in DOMAIN scope_units
            /\ c \in {4, 6} => who \in call[1].apps
            /\ c = 1 =>
                  /\ Named(e.msg[3]) = scope_units[who].machine
                  /\ scope_units[who].machine \in DOMAIN full_status.machines
                  /\ full_status.machines[scope_units[who].machine].instance_status
                        = Detailed("error", info)
            /\ c = 2 => scope_units[who].agent_status = Detailed("error", info)
            /\ c = 3 => scope_units[who].workload_status = Detailed("error", info)
            /\ c = 4 => full_status.applications[who].status = Detailed("error", info)
            /\ c = 5 => scope_units[who].workload_status = Detailed("blocked", info)
            /\ c = 6 => full_status.applications[who].status = Detailed("blocked", info)

\* an agent error is raised for one of several units in scope, one whose
\* workload is not as the fixture has it either
C19_Witness ==
    /\ Called
    /\ outcome.kind = "raise"
    /\ outcome.value.type = "JujuAgentError"
    /\ Cardinality(DOMAIN scope_units) >= 2
    /\ scope_units[Named(outcome.value.msg[1])].workload_status.status # "active"

\* C20: with a target status asked for, a unit of the record returned whose
\* workload status equals the target and whose agent status is not "idle"
\* is in ready_units and not in idle_units.
C20_ReadyWhateverTheAgent ==
    (Called /\ ReturnedRecord /\ call[1].status # None) =>
        \A n \in outcome.value[1].units :
            (/\ scope_units[n].workload_status.status = call[1].status[1]
             /\ scope_units[n].agent_status.status # "idle")
                => /\ n \in outcome.value[1].ready_units
                   /\ n \notin outcome.value[1].idle_units

\* C21: a unit "<x>/<n>" counts for application a only if x equals a.  In
\* loop(), with u and u-b both configured, an application whose own ready
\* units are fewer than wait_for_units, or are not wait_for_exact_units
\* when that is set, forces False: the ready units of the other one are not
\* counted toward it.  In subordinate discovery, the units _app_units()
\* gives u and u-b are the nested entries of their own name only.
C21_FullPrefixAttribution ==
    /\ status # None =>
          \A a \in cfg.apps :
              (\/ Cardinality(ReadyOf(a)) < cfg.wait_for_units
               \/ /\ cfg.wait_for_exact_units # None
                  /\ Cardinality(ReadyOf(a)) # cfg.wait_for_exact_units[1])
                  => rv = Some(FALSE)
    /\ \A a \in {AppU, AppUB} :
          DOMAIN _app_units(full_status, a) = NestedUnits(a)

\* one ready unit is asked of each application; the unit of u-b is the only
\* one visible, it is ready and idle for long enough, no unit was seen
\* before: u has none of its own and False is yielded
C21_Witness ==
    /\ status # None
    /\ cfg.apps = {AppU, AppUB}
    /\ cfg.wait_for_units = 1
    /\ cfg.wait_for_exact_units = None
    /\ status[1].units = {UB0}
    /\ status[1].ready_units = {UB0}
    /\ DOMAIN idle_since = {UB0}
    /\ IdleConditionHolds
    /\ rv = Some(FALSE)

MaxClock == MaxSteps * Tick + IdlePeriod + Tick

\* a record the source may settle on: every unit of it is ready and idle,
\* every application of apps has its ready units, and every unit seen so
\* far is in it
MaySettleOn(st) ==
    /\ st.ready_units = st.units
    /\ st.idle_units = st.units
    /\ \A a \in cfg.apps :
          LET n == Cardinality({u \in st.ready_units : AppOf(u) = a})
          IN  /\ n >= cfg.wait_for_units
              /\ cfg.wait_for_exact_units # None => n = cfg.wait_for_exact_units[1]
    /\ DOMAIN idle_since \subseteq st.units

\* lines 46-99: the first item of the settled source is consumed
Settle(st, tick) ==
    /\ settled = None
    /\ MaySettleOn(st)
    /\ LoopRecord(st, tick)
    /\ settled' = Some(st)

\* lines 46-99: one more item of the settled source is consumed.  Items
\* are counted up to MaxSteps and the clock is read up to MaxClock.
SteadyRecord(tick) ==
    /\ settled # None
    /\ pc = "running"
    /\ clock + tick <= MaxClock
    /\ clock' = clock + tick
    /\ status' = settled
    /\ idle_since' = UpdateIdleSince(idle_since, settled[1], clock')
    /\ rv' = Some(LoopVerdict(idle_since', settled[1], clock', cfg))
    /\ steps' = IF steps < MaxSteps THEN steps + 1 ELSE steps
    /\ yielded' = IF yielded < MaxSteps THEN yielded + 1 ELSE yielded
    /\ UNCHANGED <<cfg, pc, settled>>
    /\ ObserveScript(settled, clock', LoopVerdict(idle_since', settled[1], clock', cfg))
    /\ skip_idle_since' = UpdateIdleSince(skip_idle_since, settled[1], clock')
    /\ skip_rv' = Some(LoopVerdict(skip_idle_since', settled[1], clock', cfg))

\* an item of the settled source is consumed a tick later than the last
TimeGoesOn == SteadyRecord(Tick) /\ UNCHANGED <<idleHist, checkVars, second>>

NextLoopSettles ==
    \/ \E tick \in Ticks :
          /\ settled = None
          /\ LoopAbsent(tick)
          /\ UNCHANGED <<idleHist, checkVars, second, settled>>
    \/ \E st \in Records, tick \in Ticks :
          /\ settled = None
          /\ LoopRecord(st, tick)
          /\ UNCHANGED <<idleHist, checkVars, second, settled>>
    \/ /\ settled = None
       /\ LoopExhausted
       /\ UNCHANGED <<idleHist, checkVars, second, settled>>
    \/ \E st \in Records, tick \in Ticks :
          Settle(st, tick) /\ UNCHANGED <<idleHist, checkVars, second>>
    \/ SteadyRecord(0) /\ UNCHANGED <<idleHist, checkVars, second>>
    \/ TimeGoesOn

\* the settled source never ends and monotonic time advances
SpecLoopSettles == InitLoop /\ [][NextLoopSettles]_vars /\ WF_vars(TimeGoesOn)

\* C23: once every item is the same record, in which all units are ready
\* and idle, every application has its minimum and exact count, and which
\* has every unit seen earlier, and time advances, loop() eventually yields
\* True and yields True at every step from then on.
C23_SettledSourceConverges ==
    [](settled # None => <>[](rv = Some(TRUE)))

\* with idle_period=15 the settled source has yielded True, and a unit of
\* it was not ready, or not seen, at time 0
C23_Witness ==
    /\ settled # None
    /\ cfg.idle_period = IdlePeriod
    /\ rv = Some(TRUE)
    /\ \E n \in DOMAIN idle_since : idle_since[n].t > 0

=============================================================================
